---- MODULE Spec2Model ----
(***************************************************************************)
(* Migration planning for SQLite (prisma-rs sql-migration-connector).      *)
(*                                                                         *)
(* Spec      : SqlDatabaseMigrationStepsInferrer::infer (introspect, diff, *)
(*             fix_stupid_sqlite) followed by the in-order execution of    *)
(*             the returned steps against the live database.               *)
(* SpecFix   : fix_stupid_sqlite / needs_fix / fix applied to step lists   *)
(*             drawn from a bounded set.                                   *)
(* SpecInspector : the DatabaseInspector constructors (sqlite, postgres,   *)
(*             mysql) and Sqlite::introspect against a live server.        *)
(* SpecWriter : DatabaseWriter::execute of the sql-connector: one write    *)
(*             query (create, update, upsert, ...) in one transaction.     *)
(***************************************************************************)
EXTENDS Naturals, Sequences, FiniteSets, TLC

VARIABLES
    live,                     \* the live database: table name -> table with rows
    live0,                    \* the live database when planning started
    foreign_keys,             \* connection pragma foreign_keys (TRUE = ON)
    pc,                       \* position of the planning call / the executor
    current_database_schema,  \* infer: let current_database_schema
    expected_database_schema, \* infer: let expected_database_schema
    steps,                    \* the step list handed to fix_stupid_sqlite
    idx,                      \* fix_stupid_sqlite: number of steps consumed by the for loop
    result,                   \* fix_stupid_sqlite: let mut result
    altered_steps,            \* fix_stupid_sqlite: let mut altered_steps (last call of fix)
    next,                     \* infer: the target description (argument next)
    returned,                 \* what infer handed to its caller
    xi,                       \* executor: number of steps executed
    catalog,                  \* server-level objects: databases and schemas
    inspector,                \* the DatabaseInspector under construction / constructed
    catalog0,                 \* the server-level objects when planning started
    table_names,              \* Sqlite::introspect: the result of get_table_names
    write_query,              \* DatabaseWriter::execute: the argument write_query
    conn,                     \* the calls made on the TransactionExt, in the order made
    writer                    \* DatabaseWriter::execute: the locals of the closure and its callees

vars == <<live, live0, foreign_keys, pc, current_database_schema,
          expected_database_schema, steps, idx, result, altered_steps,
          next, returned, xi, catalog, inspector, catalog0, table_names,
          write_query, conn, writer>>

writer_vars == <<write_query, conn, writer>>
planner_vars == <<live, live0, foreign_keys, current_database_schema, expected_database_schema,
                  steps, idx, result, altered_steps, next, xi, catalog, inspector, catalog0,
                  table_names>>

---------------------------------------------------------------------------
(* Bounds of the model *)

MaxCols == 2      \* columns per table
MaxRows == 1      \* rows per table of the live database
MaxSteps == 2     \* SpecFix: length of the step list
MaxChanges == 2   \* SpecFix: column changes per AlterTable
MaxKeyCols == 3   \* SpecInspector: columns of a table whose key ordinals vary

TableNames == {"new_users", "posts", "users"}
NameOrder == <<"new_users", "posts", "sqlite_sequence", "users">>
ColNames == {"id", "name", "email"}
ColumnKinds == {[tpe |-> "Int", required |-> TRUE], [tpe |-> "String", required |-> FALSE]}
schema_name == "main"

---------------------------------------------------------------------------
(* SchemaModel: tables, columns, primary keys *)

None == [isSome |-> FALSE, columns |-> <<>>]
Some(cs) == [isSome |-> TRUE, columns |-> cs]

Range(s) == {s[i] : i \in DOMAIN s}
Contains(s, e) == \E i \in DOMAIN s : s[i] = e
Injective(s) == \A i, j \in DOMAIN s : s[i] = s[j] => i = j
ColumnNamesOf(columns) == [i \in DOMAIN columns |-> columns[i].name]

NameSeqs == {ns \in UNION {[1..k -> ColNames] : k \in 1..MaxCols} : Injective(ns)}

ColumnSeqs ==
    UNION {{[i \in DOMAIN ns |-> [name |-> ns[i], tpe |-> ks[i].tpe, required |-> ks[i].required]] :
              ks \in [DOMAIN ns -> ColumnKinds]} : ns \in NameSeqs}

PrimaryKeys(columns) == {None, Some(<<columns[1].name>>)}

TablesNamed(n) ==
    UNION {{[name |-> n, columns |-> cols, primary_key |-> pk] : pk \in PrimaryKeys(cols)} :
              cols \in ColumnSeqs}

IdColumn == [name |-> "id", tpe |-> "Int", required |-> TRUE]
NameColumn == [name |-> "name", tpe |-> "String", required |-> FALSE]

BasicTablesNamed(n) ==
    {[name |-> n, columns |-> <<IdColumn>>, primary_key |-> Some(<<"id">>)],
     [name |-> n, columns |-> <<IdColumn, NameColumn>>, primary_key |-> Some(<<"id">>)]}

\* A schema maps the names of its tables to the tables.
OneTableSchemas == {[t \in {"users"} |-> tbl] : tbl \in TablesNamed("users")}

ManyTableSchemas ==
    {s \in UNION {[D -> UNION {BasicTablesNamed(n) : n \in D}] : D \in SUBSET TableNames} :
        \A n \in DOMAIN s : s[n].name = n}

Schemas == OneTableSchemas \cup ManyTableSchemas

has_table(schema, name) == name \in DOMAIN schema

SortedNames(S) == SelectSeq(NameOrder, LAMBDA n : n \in S)

---------------------------------------------------------------------------
(* The live database *)

Null == <<"", 0, "">>

SeedRows(tbl, n) == [r \in 1..n |-> [c \in Range(ColumnNamesOf(tbl.columns)) |-> <<tbl.name, r, c>>]]

Populate(schema, n) ==
    [t \in DOMAIN schema |->
        [name |-> t, columns |-> schema[t].columns, primary_key |-> schema[t].primary_key,
         rows |-> SeedRows(schema[t], n)]]

Structure(db) ==
    [t \in DOMAIN db |->
        [name |-> db[t].name, columns |-> db[t].columns, primary_key |-> db[t].primary_key]]

---------------------------------------------------------------------------
(* MigrationStep *)

CreateTableStep(name, columns, primary_columns) ==
    [kind |-> "CreateTable", name |-> name, columns |-> columns, primary_columns |-> primary_columns]
AlterTableStep(table, changes) == [kind |-> "AlterTable", table |-> table, changes |-> changes]
DropTableStep(name) == [kind |-> "DropTable", name |-> name]
RenameTableStep(name, new_name) == [kind |-> "RenameTable", name |-> name, new_name |-> new_name]
\* A RawSql statement is kept as its format string and the arguments format! fills in;
\* an argument that is a comma-joined list is kept as the list that was joined.
RawSqlStep(fmt, args) == [kind |-> "RawSql", fmt |-> fmt, args |-> args]

AddColumn(column) == [kind |-> "AddColumn", column |-> column]
DropColumn(name) == [kind |-> "DropColumn", name |-> name]
AlterColumn(name, column) == [kind |-> "AlterColumn", name |-> name, column |-> column]

PragmaOff == "PRAGMA foreign_keys=OFF;"
PragmaOn == "PRAGMA foreign_keys=ON;"
CopyFmt == "INSERT INTO {} ({}) SELECT {} from {}"
CheckFmt == "PRAGMA \"{}\".foreign_key_check;"

---------------------------------------------------------------------------
(* DatabaseSchemaCalculator and DatabaseSchemaDiffer *)

calculate(target) == target

column_descriptions(columns, table, relations) ==
    [i \in DOMAIN columns |->
        [name |-> columns[i].name, tpe |-> columns[i].tpe, required |-> columns[i].required]]

ColumnNamed(columns, n) == columns[CHOOSE i \in DOMAIN columns : columns[i].name = n]

DroppedColumns(cur, nxt) ==
    LET gone == SelectSeq(ColumnNamesOf(cur.columns),
                          LAMBDA n : ~Contains(ColumnNamesOf(nxt.columns), n))
    IN  [i \in DOMAIN gone |-> DropColumn(gone[i])]

AddedColumns(cur, nxt) ==
    LET new == SelectSeq(column_descriptions(nxt.columns, nxt, {}),
                         LAMBDA c : ~Contains(ColumnNamesOf(cur.columns), c.name))
    IN  [i \in DOMAIN new |-> AddColumn(new[i])]

AlteredColumns(cur, nxt) ==
    LET changed == SelectSeq(column_descriptions(nxt.columns, nxt, {}),
                        LAMBDA c : /\ Contains(ColumnNamesOf(cur.columns), c.name)
                                   /\ ColumnNamed(column_descriptions(cur.columns, cur, {}), c.name) # c)
    IN  [i \in DOMAIN changed |-> AlterColumn(changed[i].name, changed[i])]

TableChanges(cur, nxt) ==
    DroppedColumns(cur, nxt) \o AddedColumns(cur, nxt) \o AlteredColumns(cur, nxt)

PrimaryColumns(table) == IF table.primary_key.isSome THEN table.primary_key.columns ELSE <<>>

diff(current, expected, ns) ==
    LET created == SortedNames(DOMAIN expected \ DOMAIN current)
        kept    == SelectSeq(SortedNames(DOMAIN expected \cap DOMAIN current),
                             LAMBDA n : TableChanges(current[n], expected[n]) # <<>>)
        dropped == SortedNames(DOMAIN current \ DOMAIN expected)
    IN  [i \in DOMAIN created |->
            CreateTableStep(created[i],
                            column_descriptions(expected[created[i]].columns, expected[created[i]], {}),
                            PrimaryColumns(expected[created[i]]))]
        \o [i \in DOMAIN kept |-> AlterTableStep(kept[i], TableChanges(current[kept[i]], expected[kept[i]]))]
        \o [i \in DOMAIN dropped |-> DropTableStep(dropped[i])]

---------------------------------------------------------------------------
(* SqlDatabaseMigrationStepsInferrer: needs_fix, fix, fix_stupid_sqlite *)

\* faulty variant: only a DropColumn counts as unsupported
needs_fix_drop_only(alter_table) ==
    LET unsupported == SelectSeq(alter_table.changes,
                                 LAMBDA change : CASE change.kind = "AddColumn" -> FALSE
                                                   [] change.kind = "DropColumn" -> TRUE
                                                   [] change.kind = "AlterColumn" -> FALSE)
    IN  unsupported # <<>>

needs_fix(alter_table) ==
    LET unsupported == SelectSeq(alter_table.changes,
                                 LAMBDA change : CASE change.kind = "AddColumn" -> FALSE
                                                   [] change.kind = "DropColumn" -> TRUE
                                                   [] change.kind = "AlterColumn" -> TRUE)
    IN  unsupported # <<>>

\* faulty variant: another prefix for the temporary table
temporary_name_with_tmp_prefix(nxt) == "tmp_" \o nxt.name

name_of_temporary_table(nxt) == "new_" \o nxt.name

\* faulty variant: the temporary table is created from the current table
create_temporary_table_from_current(current, nxt, next_schema) ==
    CreateTableStep("new_" \o nxt.name,
                    column_descriptions(current.columns, current, {}),
                    IF current.primary_key.isSome THEN current.primary_key.columns ELSE <<>>)

create_temporary_table(current, nxt, next_schema) ==
    CreateTableStep("new_" \o nxt.name,
                    column_descriptions(nxt.columns, nxt, {}),
                    IF nxt.primary_key.isSome THEN nxt.primary_key.columns ELSE <<>>)

\* faulty variant: the shared columns are listed in the order of the expected table
intersection_in_next_order(current, nxt) ==
    LET current_columns == ColumnNamesOf(current.columns)
        next_columns == ColumnNamesOf(nxt.columns)
    IN  SelectSeq(next_columns, LAMBDA c : Contains(current_columns, c))

intersection_columns(current, nxt) ==
    LET current_columns == ColumnNamesOf(current.columns)
        next_columns == ColumnNamesOf(nxt.columns)
    IN  SelectSeq(current_columns, LAMBDA c : Contains(next_columns, c))

\* faulty variant: the original table is dropped before its rows are copied
fix_drop_before_copy(alter_table, current, nxt, next_schema) ==
    LET columns_string == intersection_columns(current, nxt)
    IN  << RawSqlStep(PragmaOff, <<>>),
           create_temporary_table(current, nxt, next_schema),
           DropTableStep(current.name),
           RawSqlStep(CopyFmt, <<<<name_of_temporary_table(nxt)>>, columns_string, columns_string, <<nxt.name>>>>),
           RenameTableStep(name_of_temporary_table(nxt), nxt.name),
           RawSqlStep(CheckFmt, <<<<schema_name>>>>),
           RawSqlStep(PragmaOn, <<>>) >>

\* faulty variant: foreign keys are switched on again before the foreign_key_check
fix_reenables_before_check(alter_table, current, nxt, next_schema) ==
    LET columns_string == intersection_columns(current, nxt)
    IN  << RawSqlStep(PragmaOff, <<>>),
           create_temporary_table(current, nxt, next_schema),
           RawSqlStep(CopyFmt, <<<<name_of_temporary_table(nxt)>>, columns_string, columns_string, <<nxt.name>>>>),
           DropTableStep(current.name),
           RenameTableStep(name_of_temporary_table(nxt), nxt.name),
           RawSqlStep(PragmaOn, <<>>),
           RawSqlStep(CheckFmt, <<<<schema_name>>>>) >>

fix(alter_table, current, nxt, next_schema) ==
    LET columns_string == intersection_columns(current, nxt)
    IN  << RawSqlStep(PragmaOff, <<>>),
           create_temporary_table(current, nxt, next_schema),
           RawSqlStep(CopyFmt, <<<<name_of_temporary_table(nxt)>>, columns_string, columns_string, <<nxt.name>>>>),
           DropTableStep(current.name),
           RenameTableStep(name_of_temporary_table(nxt), nxt.name),
           RawSqlStep(CheckFmt, <<<<schema_name>>>>),
           RawSqlStep(PragmaOn, <<>>) >>

\* The guard of the first match arm of the loop in fix_stupid_sqlite.
is_fixed(step) == step.kind = "AlterTable" /\ needs_fix(step)

\* unwrap() of a table lookup that finds nothing panics.
unwrap_panics(step, current_schema, next_schema) ==
    is_fixed(step) /\ (~has_table(current_schema, step.table) \/ ~has_table(next_schema, step.table))

\* faulty variant: the rewritten AlterTable is pushed as well
loop_output_keeps_step(step, current_schema, next_schema) ==
    IF step.kind = "AlterTable" /\ needs_fix(step)
    THEN <<step>> \o fix(step, current_schema[step.table], next_schema[step.table], next_schema)
    ELSE <<step>>

\* What one iteration of the loop appends to result.
loop_output(step, current_schema, next_schema) ==
    IF is_fixed(step)
    THEN fix(step, current_schema[step.table], next_schema[step.table], next_schema)
    ELSE <<step>>

---------------------------------------------------------------------------
(* The step consumer: one step executed against the live database (SQLite) *)

Done(db, fk) == [ok |-> TRUE, db |-> db, fk |-> fk]
Failed(db, fk) == [ok |-> FALSE, db |-> db, fk |-> fk]

WithTable(db, tbl) == [t \in DOMAIN db \cup {tbl.name} |-> IF t = tbl.name THEN tbl ELSE db[t]]
WithoutTable(db, n) == [t \in DOMAIN db \ {n} |-> db[t]]

ExecCreateTable(db, fk, step) ==
    IF step.name \in DOMAIN db
    THEN Failed(db, fk)
    ELSE Done(WithTable(db, [name |-> step.name, columns |-> step.columns,
                             primary_key |-> IF step.primary_columns = <<>> THEN None
                                             ELSE Some(step.primary_columns),
                             rows |-> <<>>]), fk)

ExecDropTable(db, fk, step) ==
    IF step.name \in DOMAIN db THEN Done(WithoutTable(db, step.name), fk) ELSE Failed(db, fk)

ExecRenameTable(db, fk, step) ==
    IF step.name \in DOMAIN db /\ step.new_name \notin DOMAIN db
    THEN Done(WithTable(WithoutTable(db, step.name), [db[step.name] EXCEPT !.name = step.new_name]), fk)
    ELSE Failed(db, fk)

\* ALTER TABLE ... ADD COLUMN is the only column change SQLite executes.
ExecAlterTable(db, fk, step) ==
    LET added == [i \in DOMAIN step.changes |-> step.changes[i].column.name]
    IN  IF /\ step.table \in DOMAIN db
           /\ \A i \in DOMAIN step.changes : step.changes[i].kind = "AddColumn"
           /\ Injective(ColumnNamesOf(db[step.table].columns) \o added)
        THEN Done([db EXCEPT ![step.table] =
                      [@ EXCEPT !.columns = @ \o [i \in DOMAIN step.changes |-> step.changes[i].column],
                                !.rows = [r \in DOMAIN @ |->
                                             [c \in DOMAIN @[r] \cup Range(added) |->
                                                 IF c \in DOMAIN @[r] THEN @[r][c] ELSE Null]]]], fk)
        ELSE Failed(db, fk)

\* INSERT INTO into (cols) SELECT sel from src; an empty column list does not parse.
ExecCopy(db, fk, into, cols, sel, src) ==
    IF /\ into \in DOMAIN db /\ src \in DOMAIN db
       /\ cols # <<>> /\ Len(cols) = Len(sel)
       /\ Range(cols) \subseteq Range(ColumnNamesOf(db[into].columns))
       /\ Range(sel) \subseteq Range(ColumnNamesOf(db[src].columns))
    THEN Done([db EXCEPT ![into].rows =
                  @ \o [r \in DOMAIN db[src].rows |->
                           [c \in Range(ColumnNamesOf(db[into].columns)) |->
                               IF Contains(cols, c)
                               THEN db[src].rows[r][sel[CHOOSE i \in DOMAIN cols : cols[i] = c]]
                               ELSE Null]]], fk)
    ELSE Failed(db, fk)

ExecRawSql(db, fk, step) ==
    CASE step.fmt = PragmaOff -> Done(db, FALSE)
      [] step.fmt = PragmaOn -> Done(db, TRUE)
      [] step.fmt = CheckFmt -> Done(db, fk)
      [] step.fmt = CopyFmt -> ExecCopy(db, fk, step.args[1][1], step.args[2], step.args[3], step.args[4][1])
      [] OTHER -> Failed(db, fk)

ExecStep(db, fk, step) ==
    CASE step.kind = "CreateTable" -> ExecCreateTable(db, fk, step)
      [] step.kind = "AlterTable" -> ExecAlterTable(db, fk, step)
      [] step.kind = "DropTable" -> ExecDropTable(db, fk, step)
      [] step.kind = "RenameTable" -> ExecRenameTable(db, fk, step)
      [] step.kind = "RawSql" -> ExecRawSql(db, fk, step)

---------------------------------------------------------------------------
(* The planning call and the execution of its plan *)

NoCatalog == [databases |-> {}, schemas |-> {}]
NoInspector == [engine |-> "none", db |-> "", schema |-> ""]
NotReturned == [status |-> "none", value |-> <<>>]
NoQuery == [kind |-> "none"]
NoWriter ==
    [txs |-> 0, branch |-> "none", id |-> "", parent_id |-> "", i |-> 0,
     to_delete |-> 0, to_insert |-> 0, deletes |-> 0, inserts |-> 0]
Ok(v) == [status |-> "Ok", value |-> v]
Err(e) == [status |-> "Err", value |-> <<e>>]

Init ==
    /\ \E C \in Schemas, n \in {0, MaxRows} : live = Populate(C, n)
    /\ live0 = live
    /\ next \in Schemas
    /\ foreign_keys = TRUE
    /\ pc = "infer"
    /\ current_database_schema = <<>>
    /\ expected_database_schema = <<>>
    /\ steps = <<>>
    /\ idx = 0
    /\ result = <<>>
    /\ altered_steps = <<>>
    /\ returned = NotReturned
    /\ xi = 0
    /\ catalog = NoCatalog
    /\ catalog0 = catalog
    /\ inspector = NoInspector
    /\ table_names = <<>>
    /\ write_query = NoQuery
    /\ conn = <<>>
    /\ writer = NoWriter

\* infer, line 30: the introspection of the live database succeeds
Introspect ==
    /\ pc = "infer"
    /\ current_database_schema' = Structure(live)
    /\ pc' = "introspected"
    /\ UNCHANGED writer_vars
    /\ UNCHANGED <<live, live0, foreign_keys, expected_database_schema, steps, idx, result,
                   altered_steps, next, returned, xi, catalog, inspector, catalog0, table_names>>

\* faulty variant: the error is recorded and the introspection is tried again
IntrospectFails_and_retries ==
    /\ pc = "infer"
    /\ returned' = Err("introspection")
    /\ pc' = "infer"
    /\ UNCHANGED writer_vars
    /\ UNCHANGED <<live, live0, foreign_keys, current_database_schema, expected_database_schema,
                   steps, idx, result, altered_steps, next, xi, catalog, inspector, catalog0, table_names>>

\* infer, line 30: the introspection fails and ? returns the error
IntrospectFails ==
    /\ pc = "infer"
    /\ returned' = Err("introspection")
    /\ pc' = "returned"
    /\ UNCHANGED writer_vars
    /\ UNCHANGED <<live, live0, foreign_keys, current_database_schema, expected_database_schema,
                   steps, idx, result, altered_steps, next, xi, catalog, inspector, catalog0, table_names>>

\* faulty variant: the diff is taken against an empty current schema
Diff_against_empty ==
    /\ pc = "introspected"
    /\ expected_database_schema' = calculate(next)
    /\ steps' = diff(<<>>, calculate(next), schema_name)
    /\ idx' = 0
    /\ result' = <<>>
    /\ pc' = "fixing"
    /\ UNCHANGED writer_vars
    /\ UNCHANGED <<live, live0, foreign_keys, current_database_schema, altered_steps, next,
                   returned, xi, catalog, inspector, catalog0, table_names>>

\* infer, lines 31-35: calculate, diff, and the call of fix_stupid_sqlite
Diff ==
    /\ pc = "introspected"
    /\ expected_database_schema' = calculate(next)
    /\ steps' = diff(current_database_schema, calculate(next), schema_name)
    /\ idx' = 0
    /\ result' = <<>>
    /\ pc' = "fixing"
    /\ UNCHANGED writer_vars
    /\ UNCHANGED <<live, live0, foreign_keys, current_database_schema, altered_steps, next,
                   returned, xi, catalog, inspector, catalog0, table_names>>

\* fix_stupid_sqlite: one iteration of the for loop
FixIteration ==
    /\ pc = "fixing"
    /\ idx < Len(steps)
    /\ IF unwrap_panics(steps[idx + 1], current_database_schema, expected_database_schema)
       THEN /\ pc' = "panicked"
            /\ UNCHANGED <<idx, result, altered_steps>>
       ELSE /\ result' = result \o loop_output(steps[idx + 1], current_database_schema,
                                               expected_database_schema)
            /\ altered_steps' = IF is_fixed(steps[idx + 1])
                                THEN fix(steps[idx + 1], current_database_schema[steps[idx + 1].table],
                                         expected_database_schema[steps[idx + 1].table],
                                         expected_database_schema)
                                ELSE <<>>
            /\ idx' = idx + 1
            /\ pc' = pc
    /\ UNCHANGED writer_vars
    /\ UNCHANGED <<live, live0, foreign_keys, current_database_schema, expected_database_schema,
                   steps, next, returned, xi, catalog, inspector, catalog0, table_names>>

\* fix_stupid_sqlite returns result and infer wraps it in Ok
FixReturn ==
    /\ pc = "fixing"
    /\ idx = Len(steps)
    /\ returned' = Ok(result)
    /\ pc' = "planned"
    /\ UNCHANGED writer_vars
    /\ UNCHANGED <<live, live0, foreign_keys, current_database_schema, expected_database_schema,
                   steps, idx, result, altered_steps, next, xi, catalog, inspector, catalog0, table_names>>

\* the caller executes the next step of the plan; a failing statement stops the run
Execute ==
    /\ pc = "planned"
    /\ xi < Len(returned.value)
    /\ LET r == ExecStep(live, foreign_keys, returned.value[xi + 1])
       IN  IF r.ok
           THEN /\ live' = r.db
                /\ foreign_keys' = r.fk
                /\ xi' = xi + 1
                /\ pc' = pc
           ELSE /\ pc' = "aborted"
                /\ UNCHANGED <<live, foreign_keys, xi>>
    /\ UNCHANGED writer_vars
    /\ UNCHANGED <<live0, current_database_schema, expected_database_schema, steps, idx, result,
                   altered_steps, next, returned, catalog, inspector, catalog0, table_names>>

\* every step of the plan was executed
ExecuteDone ==
    /\ pc = "planned"
    /\ xi = Len(returned.value)
    /\ pc' = "executed"
    /\ UNCHANGED writer_vars
    /\ UNCHANGED <<live, live0, foreign_keys, current_database_schema, expected_database_schema,
                   steps, idx, result, altered_steps, next, returned, xi, catalog, inspector, catalog0, table_names>>

Next == Introspect \/ IntrospectFails \/ Diff \/ FixIteration \/ FixReturn \/ Execute \/ ExecuteDone

Spec == Init /\ [][Next]_vars

---------------------------------------------------------------------------
(* fix_stupid_sqlite on step lists drawn from a bounded set *)

FixSchemas ==
    {s \in ManyTableSchemas : DOMAIN s \subseteq {"users"} /\ \A n \in DOMAIN s : Len(s[n].columns) = 2}

ChangePool ==
    {AddColumn(NameColumn), DropColumn("name"), AlterColumn("name", [NameColumn EXCEPT !.tpe = "Int"])}

ChangeSeqs == UNION {[1..k -> ChangePool] : k \in 0..MaxChanges}

StepPool ==
    {AlterTableStep("users", ch) : ch \in ChangeSeqs}
    \cup {CreateTableStep("posts", <<IdColumn>>, <<"id">>), DropTableStep("posts"),
          RenameTableStep("posts", "users"), RawSqlStep("SELECT 1;", <<>>)}

StepSeqs == UNION {[1..k -> StepPool] : k \in 0..MaxSteps}

InitFix ==
    /\ live = <<>>
    /\ live0 = <<>>
    /\ next \in FixSchemas
    /\ foreign_keys = TRUE
    /\ pc = "fixing"
    /\ current_database_schema \in FixSchemas
    /\ expected_database_schema = next
    /\ steps \in StepSeqs
    /\ idx = 0
    /\ result = <<>>
    /\ altered_steps = <<>>
    /\ returned = NotReturned
    /\ xi = 0
    /\ catalog = NoCatalog
    /\ catalog0 = catalog
    /\ inspector = NoInspector
    /\ table_names = <<>>
    /\ write_query = NoQuery
    /\ conn = <<>>
    /\ writer = NoWriter

NextFix == FixIteration \/ FixReturn

SpecFix == InitFix /\ [][NextFix]_vars

---------------------------------------------------------------------------
(* DatabaseInspector: the constructors, and Sqlite::introspect *)

DbNames == {"app"}
SchemaNames == {"main"}
\* A connector url: the database of its path and its schema query parameter, if any.
PgUrls == [db : DbNames, has_schema : BOOLEAN, schema : SchemaNames]
Catalogs ==
    {c \in [databases : SUBSET DbNames, schemas : SUBSET (DbNames \X SchemaNames)] :
        \A sc \in c.schemas : sc[1] \in c.databases}

\* DatabaseInspector::sqlite / sqlite_with_database
NewSqlite ==
    /\ pc = "construct"
    /\ inspector' = [engine |-> "sqlite", db |-> "", schema |-> schema_name]
    /\ pc' = "constructed"
    /\ UNCHANGED writer_vars
    /\ UNCHANGED <<live, live0, foreign_keys, current_database_schema, expected_database_schema,
                   steps, idx, result, altered_steps, next, returned, xi, catalog, catalog0,
                   table_names>>

\* DatabaseInspector::mysql / mysql_with_database
NewMysql ==
    /\ pc = "construct"
    /\ inspector' = [engine |-> "mysql", db |-> "", schema |-> ""]
    /\ pc' = "constructed"
    /\ UNCHANGED writer_vars
    /\ UNCHANGED <<live, live0, foreign_keys, current_database_schema, expected_database_schema,
                   steps, idx, result, altered_steps, next, returned, xi, catalog, catalog0,
                   table_names>>

\* DatabaseInspector::postgres, lines 47-70: the url is parsed (a url without the schema
\* parameter panics) and CREATE DATABASE is sent on the root connection, its error ignored
PostgresCreateDatabase ==
    /\ pc = "construct"
    /\ \E url \in PgUrls :
          IF url.has_schema
          THEN /\ catalog' = [catalog EXCEPT !.databases = @ \cup {url.db}]
               /\ inspector' = [engine |-> "none", db |-> url.db, schema |-> url.schema]
               /\ pc' = "postgres_schema"
          ELSE /\ pc' = "panicked"
               /\ UNCHANGED <<catalog, inspector>>
    /\ UNCHANGED writer_vars
    /\ UNCHANGED <<live, live0, foreign_keys, current_database_schema, expected_database_schema,
                   steps, idx, result, altered_steps, next, returned, xi, catalog0, table_names>>

\* DatabaseInspector::postgres, lines 72-79: CREATE SCHEMA IF NOT EXISTS on the database
PostgresCreateSchema ==
    /\ pc = "postgres_schema"
    /\ catalog' = [catalog EXCEPT !.schemas = @ \cup {<<inspector.db, inspector.schema>>}]
    /\ inspector' = [inspector EXCEPT !.engine = "postgres"]
    /\ pc' = "constructed"
    /\ UNCHANGED writer_vars
    /\ UNCHANGED <<live, live0, foreign_keys, current_database_schema, expected_database_schema,
                   steps, idx, result, altered_steps, next, returned, xi, catalog0, table_names>>

\* DatabaseInspector::postgres, line 78: the statement fails and expect panics
PostgresCreateSchemaFails ==
    /\ pc = "postgres_schema"
    /\ pc' = "panicked"
    /\ UNCHANGED writer_vars
    /\ UNCHANGED <<live, live0, foreign_keys, current_database_schema, expected_database_schema,
                   steps, idx, result, altered_steps, next, returned, xi, catalog, catalog0,
                   inspector, table_names>>

\* The catalog of the live SQLite database, as its pragmas report it.
\* A column the engine created is declared with the rendering of its ColumnType; any other
\* column keeps the type string it was declared with.
NativeType(tpe) ==
    CASE tpe = "Int" -> "INTEGER"
      [] tpe = "String" -> "TEXT"
      [] OTHER -> tpe
KeyOrdinal(tbl, n) ==
    IF tbl.primary_key.isSome /\ Contains(tbl.primary_key.columns, n)
    THEN CHOOSE i \in DOMAIN tbl.primary_key.columns : tbl.primary_key.columns[i] = n
    ELSE 0
\* sqlite_master: a row of type 'table' for every table, followed by a row of type 'index'
\* for the index SQLite keeps for its primary key
SqliteMaster(db) ==
    LET ns == SortedNames(DOMAIN db)
        rows == [i \in 1..(2 * Len(ns)) |->
                    IF i % 2 = 1
                    THEN [type |-> "table", name |-> ns[(i + 1) \div 2]]
                    ELSE [type |-> "index", name |-> "sqlite_autoindex_" \o ns[i \div 2] \o "_1"]]
    IN  SelectSeq(rows, LAMBDA r : r.type = "table" \/ db[ns[CHOOSE i \in DOMAIN ns :
                                        r.name = "sqlite_autoindex_" \o ns[i] \o "_1"]].primary_key.isSome)
TableInfo(db, table) ==
    [i \in DOMAIN db[table].columns |->
        [name |-> db[table].columns[i].name, type |-> NativeType(db[table].columns[i].tpe),
         notnull |-> db[table].columns[i].required, dflt_value |-> "Null",
         pk |-> KeyOrdinal(db[table], db[table].columns[i].name)]]
ForeignKeyList(db, table) == <<>>

\* faulty variant: the bookkeeping table is listed with the others
get_table_names_unfiltered(db, schema) ==
    LET result_set == SelectSeq(SqliteMaster(db), LAMBDA row : row.type = "table")
    IN  [i \in DOMAIN result_set |-> result_set[i].name]

get_table_names(db, schema) ==
    LET result_set == SelectSeq(SqliteMaster(db), LAMBDA row : row.type = "table")
        names == [i \in DOMAIN result_set |-> result_set[i].name]
    IN  SelectSeq(names, LAMBDA n : n # "sqlite_sequence")

get_columns(db, schema, table) ==
    LET result_set == TableInfo(db, table)
    IN  [i \in DOMAIN result_set |->
            [name |-> result_set[i].name, table |-> table, tpe |-> result_set[i].type,
             is_required |-> result_set[i].notnull,
             default |-> IF result_set[i].dflt_value = "Null" THEN None
                         ELSE Some(<<result_set[i].dflt_value>>),
             pk |-> result_set[i].pk]]

get_foreign_constraints(db, schema, table) ==
    LET result_set == ForeignKeyList(db, table)
    IN  [i \in DOMAIN result_set |->
            [name |-> "", table |-> table, column |-> result_set[i].from,
             referenced_table |-> result_set[i].table, referenced_column |-> result_set[i].to]]

\* str::starts_with
starts_with(s, prefix) == Len(s) >= Len(prefix) /\ SubSeq(s, 1, Len(prefix)) = prefix

\* the match arms are tried in source order; the last arm panics
column_type(column) ==
    IF column.tpe = "INTEGER" THEN "Int"
    ELSE IF column.tpe = "REAL" THEN "Float"
    ELSE IF column.tpe = "BOOLEAN" THEN "Boolean"
    ELSE IF column.tpe = "TEXT" THEN "String"
    ELSE IF starts_with(column.tpe, "VARCHAR") THEN "String"
    ELSE IF column.tpe = "DATE" THEN "DateTime"
    ELSE "panic"

convert_introspected_columns(columns, foreign_keys_of_table) ==
    [i \in DOMAIN columns |->
        [name |-> columns[i].name, tpe |-> column_type(columns[i]), required |-> columns[i].is_required]]

\* faulty variant: the columns are left in declared order
in_declared_order(columns, k) == columns

\* sort_by_key(|c| c.pk): a stable sort on the key ordinal
RECURSIVE SortedByPk(_, _)
SortedByPk(columns, k) ==
    IF k > Len(columns) THEN <<>>
    ELSE SelectSeq(columns, LAMBDA c : c.pk = k) \o SortedByPk(columns, k + 1)

get_table(db, schema, table) ==
    LET introspected_columns == get_columns(db, schema, table)
        introspected_foreign_keys == get_foreign_constraints(db, schema, table)
        columns_copy == SortedByPk(introspected_columns, 0)
        kept == SelectSeq(columns_copy, LAMBDA c : c.pk > 0)
        pk_columns == [i \in DOMAIN kept |-> kept[i].name]
    IN  [name |-> table,
         columns |-> convert_introspected_columns(introspected_columns, introspected_foreign_keys),
         indexes |-> <<>>,
         primary_key_columns |-> pk_columns]

\* Sqlite::introspect: get_table_names
SqliteGetTableNames ==
    /\ pc = "constructed"
    /\ inspector.engine = "sqlite"
    /\ table_names' = get_table_names(live, inspector.schema)
    /\ idx' = 0
    /\ current_database_schema' = <<>>
    /\ pc' = "get_table"
    /\ UNCHANGED writer_vars
    /\ UNCHANGED <<live, live0, foreign_keys, expected_database_schema, steps, result,
                   altered_steps, next, returned, xi, catalog, catalog0, inspector>>

\* Sqlite::introspect: get_table of the next table name; column_type panics on a type
\* string it has no arm for, and the panic ends introspect without a DatabaseSchema
SqliteGetTable ==
    /\ pc = "get_table"
    /\ idx < Len(table_names)
    /\ LET table == get_table(live, inspector.schema, table_names[idx + 1])
       IN  IF \E i \in DOMAIN table.columns : table.columns[i].tpe = "panic"
           THEN /\ pc' = "panicked"
                /\ UNCHANGED <<current_database_schema, idx>>
           ELSE /\ current_database_schema' = WithTable(current_database_schema, table)
                /\ idx' = idx + 1
                /\ pc' = pc
    /\ UNCHANGED writer_vars
    /\ UNCHANGED <<live, live0, foreign_keys, expected_database_schema, steps, result,
                   altered_steps, next, returned, xi, catalog, catalog0, inspector, table_names>>

\* query_on_raw_connection fails and unwrap panics (lines 41, 77, 103)
SqliteQueryFails ==
    /\ pc \in {"constructed", "get_table"}
    /\ inspector.engine = "sqlite"
    /\ pc = "get_table" => idx < Len(table_names)
    /\ pc' = "query_panicked"
    /\ UNCHANGED writer_vars
    /\ UNCHANGED <<live, live0, foreign_keys, current_database_schema, expected_database_schema,
                   steps, idx, result, altered_steps, next, returned, xi, catalog, catalog0,
                   inspector, table_names>>

\* Sqlite::introspect returns the DatabaseSchema
SqliteIntrospectReturn ==
    /\ pc = "get_table"
    /\ idx = Len(table_names)
    /\ pc' = "inspected"
    /\ UNCHANGED writer_vars
    /\ UNCHANGED <<live, live0, foreign_keys, current_database_schema, expected_database_schema,
                   steps, idx, result, altered_steps, next, returned, xi, catalog, catalog0,
                   inspector, table_names>>

\* The databases the inspector is pointed at; a column declared outside the engine keeps
\* its declared type string.
DeclaredTypes ==
    {"INTEGER", "REAL", "BOOLEAN", "TEXT", "VARCHAR(255)", "VARCHAR", "VARCHAR2(10)", "DATE",
     "BLOB", "integer"}
ColOrder == <<"id", "name", "email">>
CatalogNames == TableNames \cup {"sqlite_sequence"}

\* one table whose columns are declared with any of the type strings
TypedDatabases ==
    UNION {{[t \in {"users"} |->
               [name |-> "users",
                columns |-> [i \in 1..k |-> [name |-> ColOrder[i], tpe |-> ts[i], required |-> FALSE]],
                primary_key |-> None, rows |-> <<>>]] :
            ts \in [1..k -> DeclaredTypes]} : k \in 1..MaxCols}

\* one table whose primary key is any ordering of any of its columns
KeySeqs(ns) == {ks \in UNION {[1..k -> Range(ns)] : k \in 1..Len(ns)} : Injective(ks)}
KeyNameSeqs == {ns \in UNION {[1..k -> ColNames] : k \in 1..MaxKeyCols} : Injective(ns)}
KeyedDatabases ==
    UNION {{[t \in {"users"} |->
               [name |-> "users",
                columns |-> [i \in DOMAIN ns |-> [name |-> ns[i], tpe |-> "INTEGER", required |-> TRUE]],
                primary_key |-> pk, rows |-> <<>>]] :
            pk \in {None} \cup {Some(ks) : ks \in KeySeqs(ns)}} : ns \in KeyNameSeqs}

\* any set of tables, the bookkeeping table of AUTOINCREMENT among them
SequenceTable ==
    [name |-> "sqlite_sequence",
     columns |-> <<[name |-> "name", tpe |-> "", required |-> FALSE],
                   [name |-> "seq", tpe |-> "", required |-> FALSE]>>,
     primary_key |-> None, rows |-> <<>>]
PlainTable(n) ==
    [name |-> n, columns |-> <<[name |-> "id", tpe |-> "INTEGER", required |-> TRUE]>>,
     primary_key |-> Some(<<"id">>), rows |-> <<>>]
CatalogDatabases ==
    {[t \in ns |-> IF t = "sqlite_sequence" THEN SequenceTable ELSE PlainTable(t)] :
        ns \in SUBSET CatalogNames}

InspectedDatabases ==
    {Populate(C, n) : C \in Schemas, n \in {0, MaxRows}}
        \cup TypedDatabases \cup KeyedDatabases \cup CatalogDatabases

InitInspector ==
    /\ live \in InspectedDatabases
    /\ live0 = live
    /\ next = <<>>
    /\ foreign_keys = TRUE
    /\ pc = "construct"
    /\ current_database_schema = <<>>
    /\ expected_database_schema = <<>>
    /\ steps = <<>>
    /\ idx = 0
    /\ result = <<>>
    /\ altered_steps = <<>>
    /\ returned = NotReturned
    /\ xi = 0
    /\ catalog \in Catalogs
    /\ catalog0 = catalog
    /\ inspector = NoInspector
    /\ table_names = <<>>
    /\ write_query = NoQuery
    /\ conn = <<>>
    /\ writer = NoWriter

NextInspector ==
    \/ NewSqlite \/ NewMysql
    \/ PostgresCreateDatabase \/ PostgresCreateSchema \/ PostgresCreateSchemaFails
    \/ SqliteGetTableNames \/ SqliteGetTable \/ SqliteQueryFails \/ SqliteIntrospectReturn

SpecInspector == InitInspector /\ [][NextInspector]_vars

---------------------------------------------------------------------------
(* Properties *)

\* The claims' own reading of "needs correction": some change is a DropColumn or an AlterColumn.
HasDropOrAlter(alter_table) ==
    \E j \in DOMAIN alter_table.changes : alter_table.changes[j].kind \in {"DropColumn", "AlterColumn"}

Rewritten(step) == step.kind = "AlterTable" /\ HasDropOrAlter(step)

\* The last iteration of the loop rewrote an AlterTable step.
LastWasRewritten == idx > 0 /\ Rewritten(steps[idx])

IndexOf(seq, e) == CHOOSE i \in DOMAIN seq : seq[i] = e

SameStructure(db, schema) ==
    /\ DOMAIN db = DOMAIN schema
    /\ \A t \in DOMAIN db :
          /\ Range(db[t].columns) = Range(schema[t].columns)
          /\ PrimaryColumns(db[t]) = PrimaryColumns(schema[t])

\* C1: executing the corrected plan in list order against the database that was
\* introspected ends in a database whose structure equals the expected schema: the same
\* tables, and per table the same columns, types, nullability and primary-key columns.
\* Stated for the plans in which fix rewrote a step.
C1_RoundTrip ==
    (pc \in {"executed", "aborted"} /\ \E i \in DOMAIN steps : Rewritten(steps[i]))
        => (pc = "executed" /\ SameStructure(live, expected_database_schema))

\* C2: a rewritten AlterTable on T becomes exactly seven steps, in this order: foreign keys
\* off, CreateTable(new_T), the data copy from T into new_T, DropTable(T),
\* RenameTable(new_T, T), foreign_key_check of the schema, foreign keys on; they are what the
\* iteration appended to result, and none of them begins or commits a transaction.
C2_SevenStepsInOrder ==
    LastWasRewritten =>
        LET T == steps[idx].table
            a == altered_steps
        IN  /\ Len(a) = 7
            /\ a[1] = [kind |-> "RawSql", fmt |-> "PRAGMA foreign_keys=OFF;", args |-> <<>>]
            /\ a[2].kind = "CreateTable" /\ a[2].name = "new_" \o T
            /\ a[3].kind = "RawSql" /\ a[3].fmt = "INSERT INTO {} ({}) SELECT {} from {}"
            /\ a[3].args[1] = <<"new_" \o T>> /\ a[3].args[4] = <<T>>
            /\ a[4] = [kind |-> "DropTable", name |-> T]
            /\ a[5] = [kind |-> "RenameTable", name |-> "new_" \o T, new_name |-> T]
            /\ a[6] = [kind |-> "RawSql", fmt |-> "PRAGMA \"{}\".foreign_key_check;", args |-> <<<<schema_name>>>>]
            /\ a[7] = [kind |-> "RawSql", fmt |-> "PRAGMA foreign_keys=ON;", args |-> <<>>]
            /\ Len(result) >= 7 /\ SubSeq(result, Len(result) - 6, Len(result)) = a

C2_Witness == LastWasRewritten /\ Len(altered_steps) = 7 /\ Len(result) > 7

\* C3: needs_fix is true exactly for the change lists that hold a DropColumn or an
\* AlterColumn, and an AlterTable without one is appended to the corrected list as it is.
C3_NeedsFixIffDropOrAlter ==
    /\ \A i \in DOMAIN steps :
          steps[i].kind = "AlterTable" => (needs_fix(steps[i]) <=> HasDropOrAlter(steps[i]))
    /\ (idx > 0 /\ steps[idx].kind = "AlterTable" /\ ~HasDropOrAlter(steps[idx]))
          => (result # <<>> /\ result[Len(result)] = steps[idx])

C3_Witness ==
    /\ idx = 2
    /\ steps[1].kind = "AlterTable" /\ steps[1].changes = <<>>
    /\ steps[2].kind = "AlterTable" /\ Len(steps[2].changes) = 2
    /\ \A j \in DOMAIN steps[2].changes : steps[2].changes[j].kind = "AddColumn"
    /\ result = steps

\* Where the output of step i starts in the corrected list.
RewrittenBefore(i) == Cardinality({j \in 1..(i - 1) : Rewritten(steps[j])})
Start(i) == i + 6 * RewrittenBefore(i)

\* C4: the corrected list is the input list with every rewritten AlterTable replaced in
\* place by its seven steps: the other steps are unchanged and in their order, and after n
\* steps of which k were rewritten the list has n + 6k steps.
C4_PassthroughInPlace ==
    /\ Len(result) = idx + 6 * RewrittenBefore(idx + 1)
    /\ \A i \in 1..idx :
          IF Rewritten(steps[i])
          THEN /\ result[Start(i)].kind = "RawSql" /\ result[Start(i)].fmt = PragmaOff
               /\ result[Start(i) + 3] = DropTableStep(steps[i].table)
               /\ result[Start(i) + 6].kind = "RawSql" /\ result[Start(i) + 6].fmt = PragmaOn
          ELSE result[Start(i)] = steps[i]
    /\ returned.status = "Ok" => (idx = Len(steps) /\ returned.value = result)

C4_Witness ==
    /\ returned.status = "Ok"
    /\ Len(steps) = 2
    /\ ~Rewritten(steps[1]) /\ steps[1].kind = "AlterTable"
    /\ Rewritten(steps[2])
    /\ Len(returned.value) = 8

\* C5: the copy statement of a rebuild lists, on its INSERT and on its SELECT side, the
\* column names that the current and the expected table share, in the order of the
\* current table; dropped and added columns are not listed.
C5_CopiesIntersectionInCurrentOrder ==
    LastWasRewritten =>
        LET T == steps[idx].table
            cur == ColumnNamesOf(current_database_schema[T].columns)
            exp == ColumnNamesOf(expected_database_schema[T].columns)
            cols == altered_steps[3].args[2]
        IN  /\ altered_steps[3].args[3] = cols
            /\ Range(cols) = Range(cur) \cap Range(exp)
            /\ Injective(cols)
            /\ \A i, j \in DOMAIN cols : i < j => IndexOf(cur, cols[i]) < IndexOf(cur, cols[j])

C5_Witness ==
    /\ LastWasRewritten
    /\ Len(altered_steps[3].args[2]) = 2
    /\ ColumnNamesOf(expected_database_schema[steps[idx].table].columns)
          = <<altered_steps[3].args[2][2], altered_steps[3].args[2][1]>>

\* C7: the CreateTable of a rebuild of T names new_T and carries every column of the
\* expected table T, in its order, and the expected primary-key columns, or no
\* primary-key column when the expected table has no primary key.
C7_CreatesExpectedTable ==
    LastWasRewritten =>
        LET T == steps[idx].table
            exp == expected_database_schema[T]
            c == altered_steps[2]
        IN  /\ c.kind = "CreateTable"
            /\ c.name = "new_" \o T
            /\ Len(c.columns) = Len(exp.columns)
            /\ \A i \in DOMAIN exp.columns :
                  /\ c.columns[i].name = exp.columns[i].name
                  /\ c.columns[i].tpe = exp.columns[i].tpe
                  /\ c.columns[i].required = exp.columns[i].required
            /\ exp.primary_key.isSome => c.primary_columns = exp.primary_key.columns
            /\ ~exp.primary_key.isSome => c.primary_columns = <<>>

C7_Witness ==
    /\ LastWasRewritten
    /\ ~expected_database_schema[steps[idx].table].primary_key.isSome
    /\ Len(altered_steps[2].columns) = 2
    /\ Len(steps[idx].changes) = 1

\* C8: when the current and the expected schema are equal the diff is empty, and so is
\* the step list infer returns.
C8_EqualSchemasEmptyPlan ==
    (pc \notin {"infer", "introspected", "returned"} /\ current_database_schema = expected_database_schema)
        => /\ steps = <<>>
           /\ returned.status = "Ok" => returned.value = <<>>

C8_Witness ==
    /\ returned.status = "Ok"
    /\ current_database_schema = expected_database_schema
    /\ Cardinality(DOMAIN current_database_schema) = 2

\* C9: when the loop stops at an AlterTable whose table the current or the expected schema
\* lacks, the caller holds an error value that carries the table name.
C9_MissingTableIsErrorValue ==
    (pc # "fixing" /\ idx < Len(steps))
        => (returned.status = "Err" /\ returned.value = <<steps[idx + 1].table>>)

\* The rows a rebuilt table held before the plan, and what the rebuild is to keep of them.
RowsBefore(T) == live0[T].rows
Shared(T) ==
    Range(ColumnNamesOf(current_database_schema[T].columns))
        \cap Range(ColumnNamesOf(expected_database_schema[T].columns))

HoldsProjection(X, T) ==
    /\ X \in DOMAIN live
    /\ \A r \in DOMAIN RowsBefore(T) : \E q \in DOMAIN live[X].rows :
          \A c \in Shared(T) : c \in DOMAIN live[X].rows[q] /\ live[X].rows[q][c] = RowsBefore(T)[r][c]

ProjectedRows(T) ==
    [r \in DOMAIN RowsBefore(T) |->
        [c \in Range(ColumnNamesOf(expected_database_schema[T].columns)) |->
            IF c \in Shared(T) THEN RowsBefore(T)[r][c] ELSE Null]]

\* C6: once the copy step of a rebuild of T has run, the rows T held before the plan,
\* projected on the copied columns, are in T or in new_T, and once the rebuild is complete
\* T holds exactly those rows, with Null in the added columns.
C6_RebuildKeepsRows ==
    pc \in {"planned", "executed", "aborted"} =>
        \A i \in DOMAIN steps : Rewritten(steps[i]) =>
            LET T == steps[i].table
            IN  /\ xi >= Start(i) + 2 => (HoldsProjection(T, T) \/ HoldsProjection("new_" \o T, T))
                /\ xi >= Start(i) + 6 => (T \in DOMAIN live /\ live[T].rows = ProjectedRows(T))

C6_Witness ==
    /\ pc = "executed"
    /\ \E i \in DOMAIN steps :
          /\ Rewritten(steps[i])
          /\ RowsBefore(steps[i].table) # <<>>
          /\ \E j, k \in DOMAIN steps[i].changes :
                steps[i].changes[j].kind = "DropColumn" /\ steps[i].changes[k].kind = "AddColumn"
          /\ live[steps[i].table].rows = ProjectedRows(steps[i].table)

\* C10: constructing an inspector, introspecting and planning leave the live database as
\* it was: its tables and rows, and the databases and schemas of the server.
C10_PlanningIsReadOnly == live = live0 /\ catalog = catalog0

---------------------------------------------------------------------------
(* Sqlite::introspect: primary keys, column types, table names *)

\* The key ordinal the catalog reports for a column of a table of the live database.
Ordinal(t, c) == KeyOrdinal(live[t], c)
Introspected == IF pc \in {"get_table", "inspected"} THEN DOMAIN current_database_schema ELSE {}

\* C11: the primary key introspected for a table is exactly the columns whose key ordinal
\* is greater than zero, each once, in ascending order of the ordinal; a column with
\* ordinal 0 is never in it.
C11_PrimaryKeyByOrdinal ==
    \A t \in Introspected :
        LET pk == current_database_schema[t].primary_key_columns
        IN  /\ Range(pk) = {c \in Range(ColumnNamesOf(live[t].columns)) : Ordinal(t, c) > 0}
            /\ Injective(pk)
            /\ \A i, j \in DOMAIN pk : i < j => Ordinal(t, pk[i]) < Ordinal(t, pk[j])

\* a key of two columns whose ordinals run against the declared positions, beside a
\* column with ordinal 0
C11_Witness ==
    /\ pc = "inspected"
    /\ \E t \in Introspected :
          /\ Len(live[t].columns) = 3
          /\ Ordinal(t, live[t].columns[1].name) = 2
          /\ Ordinal(t, live[t].columns[2].name) = 0
          /\ Ordinal(t, live[t].columns[3].name) = 1
          /\ current_database_schema[t].primary_key_columns =
                <<live[t].columns[3].name, live[t].columns[1].name>>

\* The type string a column of the live database was declared with.
Declared(t, i) == NativeType(live[t].columns[i].tpe)
ends_with(s, suffix) == Len(s) >= Len(suffix) /\ SubSeq(s, Len(s) - Len(suffix) + 1, Len(s)) = suffix
\* VARCHAR(n); a VARCHAR declared without a length is counted with it
IsVarcharN(s) == s = "VARCHAR" \/ (starts_with(s, "VARCHAR(") /\ ends_with(s, ")"))
Recognized(s) == s \in {"INTEGER", "REAL", "BOOLEAN", "TEXT", "DATE"} \/ IsVarcharN(s)
MappedType(s) ==
    CASE s = "INTEGER" -> "Int"
      [] s = "REAL" -> "Float"
      [] s = "BOOLEAN" -> "Boolean"
      [] s = "DATE" -> "DateTime"
      [] OTHER -> "String"

\* C12: INTEGER, REAL, BOOLEAN, TEXT, VARCHAR(n) and DATE are mapped to Int, Float, Boolean,
\* String, String and DateTime; a column declared with any other type string is never given
\* a type, and the introspection that meets it ends in an error handed to the caller.
C12_TypeMapping ==
    /\ \A t \in Introspected : \A i \in DOMAIN live[t].columns :
          /\ Recognized(Declared(t, i))
          /\ current_database_schema[t].columns[i].tpe = MappedType(Declared(t, i))
    /\ (pc = "panicked" /\ inspector.engine = "sqlite") => returned.status = "Err"

\* The names of the catalog's rows of type 'table', in catalog order.
Listed ==
    LET tables == SelectSeq(SqliteMaster(live), LAMBDA row : row.type = "table")
    IN  [i \in DOMAIN tables |-> tables[i].name]

\* C14: the tables introspect works through are the catalog's rows of type 'table' without
\* sqlite_sequence, each once and in catalog order, and the schema it returns has exactly
\* these tables: sqlite_sequence is never one of them, every other listed table is.
C14_SequenceTableExcluded ==
    /\ pc \in {"get_table", "inspected"} =>
          /\ Range(table_names) = Range(Listed) \ {"sqlite_sequence"}
          /\ Injective(table_names)
          /\ \A i, j \in DOMAIN table_names :
                i < j => IndexOf(Listed, table_names[i]) < IndexOf(Listed, table_names[j])
          /\ DOMAIN current_database_schema = {table_names[i] : i \in 1..idx}
    /\ pc = "inspected" =>
          /\ "sqlite_sequence" \notin DOMAIN current_database_schema
          /\ DOMAIN current_database_schema = Range(Listed) \ {"sqlite_sequence"}

\* a catalog that lists sqlite_sequence between other tables, beside the rows of indexes
C14_Witness ==
    /\ pc = "inspected"
    /\ \E i, j, k \in DOMAIN Listed :
          i < j /\ j < k /\ Listed[j] = "sqlite_sequence"
          /\ Listed[i] \in DOMAIN current_database_schema
          /\ Listed[k] \in DOMAIN current_database_schema
    /\ Len(SqliteMaster(live)) > Len(Listed)
    /\ Len(table_names) = Len(Listed) - 1

---------------------------------------------------------------------------
(* infer: a failing introspection *)

\* C13: when the introspection fails, infer hands that error to its caller and stops there:
\* no expected schema was calculated, no diff and no correction ran, no step list exists,
\* and the introspection is not tried again.
C13_AllOrNothing ==
    returned.status = "Err" =>
        /\ pc = "returned"
        /\ returned.value = <<"introspection">>
        /\ current_database_schema = <<>> /\ expected_database_schema = <<>>
        /\ steps = <<>> /\ result = <<>> /\ idx = 0 /\ xi = 0
        /\ live = live0

\* the failing introspection of a database that has tables, for a target that has tables
C13_Witness ==
    /\ pc = "returned"
    /\ returned.status = "Err"
    /\ DOMAIN live # {} /\ DOMAIN next # {}

---------------------------------------------------------------------------
(* Execution of the corrected plan: foreign-key enforcement, executability *)

IsPragmaOff(step) == step.kind = "RawSql" /\ step.fmt = PragmaOff
IsPragmaOn(step) == step.kind = "RawSql" /\ step.fmt = PragmaOn
\* Position p of the corrected list lies in the rebuild of step i, its two pragmas excluded.
InRebuild(p) == \E i \in DOMAIN steps : Rewritten(steps[i]) /\ Start(i) < p /\ p < Start(i) + 6
IsPassthrough(p) == \E i \in DOMAIN steps : ~Rewritten(steps[i]) /\ Start(i) = p
Executing == pc \in {"planned", "aborted", "executed"}

\* C15: executed in order from enforcement ON, the steps between the two pragmas of a
\* rebuild (CreateTable, copy, DropTable, RenameTable, foreign_key_check) run with
\* enforcement OFF and every passthrough step runs with enforcement ON; each OFF is closed
\* by the ON six steps later with no pragma in between, so the pairs of different tables
\* neither nest nor overlap; enforcement is ON once the last step has run.
C15_EnforcementOffOnlyInRebuild ==
    Executing =>
        /\ \A p \in DOMAIN result :
              /\ IsPragmaOff(result[p]) =>
                    /\ p + 6 <= Len(result) /\ IsPragmaOn(result[p + 6])
                    /\ \A q \in (p + 1)..(p + 5) : ~IsPragmaOff(result[q]) /\ ~IsPragmaOn(result[q])
                    /\ result[p + 1].kind = "CreateTable"
                    /\ result[p + 2].kind = "RawSql" /\ result[p + 2].fmt = CopyFmt
                    /\ result[p + 3].kind = "DropTable"
                    /\ result[p + 4].kind = "RenameTable"
                    /\ result[p + 5].kind = "RawSql" /\ result[p + 5].fmt = CheckFmt
              /\ IsPragmaOn(result[p]) => (p > 6 /\ IsPragmaOff(result[p - 6]))
        /\ xi < Len(result) =>
              /\ InRebuild(xi + 1) => ~foreign_keys
              /\ IsPassthrough(xi + 1) => foreign_keys
              /\ IsPragmaOff(result[xi + 1]) => foreign_keys
              /\ IsPragmaOn(result[xi + 1]) => ~foreign_keys
        /\ xi = Len(result) => foreign_keys

\* a plan of two rebuilds and a passthrough step, executed to its end
C15_Witness ==
    /\ pc = "executed"
    /\ xi = Len(result)
    /\ Cardinality({i \in DOMAIN steps : Rewritten(steps[i])}) >= 2
    /\ \E i \in DOMAIN steps : ~Rewritten(steps[i])
    /\ foreign_keys

\* What a step needs of the database it runs against.
Executable(step, db) ==
    CASE step.kind = "CreateTable" -> step.name \notin DOMAIN db
      [] step.kind = "DropTable" -> step.name \in DOMAIN db
      [] step.kind = "AlterTable" -> step.table \in DOMAIN db
      [] step.kind = "RenameTable" -> step.name \in DOMAIN db /\ step.new_name \notin DOMAIN db
      [] step.kind = "RawSql" /\ step.fmt = CopyFmt -> step.args[4][1] \in DOMAIN db
      [] OTHER -> TRUE

\* C16: at the moment each step of a corrected plan runs, a CreateTable names a table that
\* does not exist, a DropTable, an AlterTable and a data copy name a table that exists, and
\* a RenameTable names a table that exists and a new name that does not; for every current
\* and expected schema, the ones holding a table named new_<T> included.
C16_PlanIsExecutable ==
    (pc = "planned" /\ xi < Len(result)) => Executable(result[xi + 1], live)

---------------------------------------------------------------------------
(* DatabaseWriter::execute (sql-connector): one write query in one transaction *)

MaxListArgs == 2  \* SpecWriter: scalar list arguments of an update
MaxStmts == 2     \* SpecWriter: deletes / inserts one scalar list argument yields

Ids == {"r1", "r2"}
FieldOrder == <<"tags", "scores", "flags">>
NonListArgs == {"empty", "some"}

\* What the callees give for one entry of list_args: whether find_from_scalar finds a scalar
\* field of that name, and how many deletes and inserts update_scalar_list_values yields.
ListArgs ==
    [known : {TRUE}, deletes : 0..MaxStmts, inserts : 0..MaxStmts]
        \cup {[known |-> FALSE, deletes |-> 0, inserts |-> 0]}
\* list_args: the names of the list fields to update
ListArgSeqs == {SubSeq(FieldOrder, 1, k) : k \in 0..MaxListArgs}

CreateRecords == {[kind |-> "CreateRecord"]}
UpdateRecords ==
    [kind : {"UpdateRecord"}, where_ : {"w1"}, non_list_args : NonListArgs, list_args : ListArgSeqs]
UpsertRecords ==
    [kind : {"UpsertRecord"}, where_ : {"w2"}, create : CreateRecords, update : UpdateRecords]
OtherQueries == {[kind |-> k] : k \in {"UpdateManyRecords", "DeleteRecord", "DeleteManyRecords", "ResetData"}}
WriteQueries == CreateRecords \cup UpdateRecords \cup UpsertRecords \cup OtherQueries

\* A call on the connection: the function that made it, the call, what it was made on,
\* whether it succeeded, and the id or the error it gave back.
Call(by, call, on, ok, gave) == [by |-> by, call |-> call, on |-> on, ok |-> ok, gave |-> gave]

\* What conn.find_id can give back.
FindOutcomes ==
    {[ok |-> TRUE, gave |-> id] : id \in Ids}
        \cup {[ok |-> FALSE, gave |-> e] : e \in {"RecordNotFoundForWhere", "ConnectionError"}}

\* The UpdateRecord the update function works on.
un == IF write_query.kind = "UpsertRecord" THEN write_query.update ELSE write_query

WriteQueryResult(identifier, typ) == [identifier |-> identifier, typ |-> typ]

\* lines 24, 45-47, 53-91: with_tx_ext opens the transaction and the closure matches the query
ExecuteBegin ==
    /\ pc = "execute"
    /\ writer' = [writer EXCEPT !.txs = @ + 1]
    /\ pc' = CASE write_query.kind = "CreateRecord" -> "create"
               [] write_query.kind = "UpdateRecord" -> "update_find_id"
               [] write_query.kind = "UpsertRecord" -> "upsert_find_id"
               [] OTHER -> "other"
    /\ UNCHANGED <<write_query, conn, returned>>
    /\ UNCHANGED planner_vars

\* faulty variant: every failed lookup of an upsert leads to the create branch
UpsertFindId_creates_on_any_error ==
    /\ pc = "upsert_find_id"
    /\ \E o \in FindOutcomes :
          /\ conn' = Append(conn, Call("execute", "find_id", write_query.where_, o.ok, o.gave))
          /\ IF ~o.ok
             THEN /\ writer' = [writer EXCEPT !.branch = "create"]
                  /\ pc' = "create"
             ELSE /\ writer' = [writer EXCEPT !.branch = "update"]
                  /\ pc' = "update_find_id"
          /\ UNCHANGED returned
    /\ UNCHANGED write_query
    /\ UNCHANGED planner_vars

\* lines 48-52: the lookup of an upsert and the three arms on its result
UpsertFindId ==
    /\ pc = "upsert_find_id"
    /\ \E o \in FindOutcomes :
          /\ conn' = Append(conn, Call("execute", "find_id", write_query.where_, o.ok, o.gave))
          /\ IF ~o.ok /\ o.gave = "RecordNotFoundForWhere"
             THEN /\ writer' = [writer EXCEPT !.branch = "create"]
                  /\ pc' = "create"
                  /\ UNCHANGED returned
             ELSE IF ~o.ok
             THEN /\ writer' = [writer EXCEPT !.branch = "error"]
                  /\ returned' = Err(o.gave)
                  /\ pc' = "returned"
             ELSE /\ writer' = [writer EXCEPT !.branch = "update"]
                  /\ pc' = "update_find_id"
                  /\ UNCHANGED returned
    /\ UNCHANGED write_query
    /\ UNCHANGED planner_vars

\* create, line 26: create::execute inserts the record and gives its id, or fails
Create ==
    /\ pc = "create"
    /\ \E o \in {[ok |-> TRUE, gave |-> id] : id \in Ids} \cup {[ok |-> FALSE, gave |-> "QueryError"]} :
          /\ conn' = Append(conn, Call("create", "insert", "record", o.ok, o.gave))
          /\ IF o.ok
             THEN /\ writer' = [writer EXCEPT !.parent_id = o.gave]
                  /\ pc' = "create_nested"
                  /\ UNCHANGED returned
             ELSE /\ returned' = Err(o.gave)
                  /\ pc' = "returned"
                  /\ UNCHANGED writer
    /\ UNCHANGED write_query
    /\ UNCHANGED planner_vars

\* create / update, lines 27-32 and 37-42: nested::execute, then the WriteQueryResult
NestedWrites ==
    /\ pc \in {"create_nested", "update_nested"}
    /\ \E ok \in BOOLEAN :
          /\ conn' = Append(conn, Call("nested", "nested_writes", writer.parent_id, ok,
                                       IF ok THEN "" ELSE "QueryError"))
          /\ returned' = IF ok
                         THEN Ok(<<WriteQueryResult(writer.parent_id,
                                                    IF pc = "create_nested" THEN "Create" ELSE "Update")>>)
                         ELSE Err("QueryError")
    /\ pc' = "returned"
    /\ UNCHANGED <<write_query, writer>>
    /\ UNCHANGED planner_vars

\* lines 53-91: the other queries make their call and give its result
OtherQuery ==
    /\ pc = "other"
    /\ \E ok \in BOOLEAN :
          /\ conn' = Append(conn, Call("execute", write_query.kind, "", ok, IF ok THEN "" ELSE "QueryError"))
          /\ returned' = IF ok
                         THEN Ok(<<WriteQueryResult("", CASE write_query.kind = "DeleteRecord" -> "Delete"
                                                          [] write_query.kind = "ResetData" -> "Unit"
                                                          [] OTHER -> "Many")>>)
                         ELSE Err("QueryError")
    /\ pc' = "returned"
    /\ UNCHANGED <<write_query, writer>>
    /\ UNCHANGED planner_vars

\* update::execute, line 17: the lookup of the record; ? returns its error
UpdateFindId ==
    /\ pc = "update_find_id"
    /\ \E o \in FindOutcomes :
          /\ conn' = Append(conn, Call("update", "find_id", un.where_, o.ok, o.gave))
          /\ IF o.ok
             THEN /\ writer' = [writer EXCEPT !.id = o.gave]
                  /\ pc' = "update_one"
                  /\ UNCHANGED returned
             ELSE /\ returned' = Err(o.gave)
                  /\ pc' = "returned"
                  /\ UNCHANGED writer
    /\ UNCHANGED write_query
    /\ UNCHANGED planner_vars

\* update::execute, lines 19-21: update_one builds no update for empty arguments, or an
\* update that conn.update issues, or fails
UpdateOne ==
    /\ pc = "update_one"
    /\ \/ /\ returned' = Err("ConversionError")
          /\ pc' = "returned"
          /\ UNCHANGED conn
       \/ /\ un.non_list_args = "empty"
          /\ pc' = "list_args"
          /\ UNCHANGED <<conn, returned>>
       \/ /\ un.non_list_args = "some"
          /\ \E ok \in BOOLEAN :
                /\ conn' = Append(conn, Call("update", "update", writer.id, ok,
                                             IF ok THEN "" ELSE "QueryError"))
                /\ IF ok
                   THEN pc' = "list_args" /\ UNCHANGED returned
                   ELSE pc' = "returned" /\ returned' = Err("QueryError")
    /\ UNCHANGED <<write_query, writer>>
    /\ UNCHANGED planner_vars

\* update_list_args, lines 61-64: the next entry of list_args; unwrap panics when the model
\* has no scalar field of its name
ListArgNext ==
    /\ pc = "list_args"
    /\ writer.i < Len(un.list_args)
    /\ \E o \in ListArgs :
          IF o.known
          THEN /\ writer' = [writer EXCEPT !.i = @ + 1, !.to_delete = o.deletes,
                                           !.to_insert = o.inserts, !.deletes = 0, !.inserts = 0]
               /\ pc' = "list_arg"
          ELSE /\ pc' = "panicked"
               /\ UNCHANGED writer
    /\ UNCHANGED <<write_query, conn, returned>>
    /\ UNCHANGED planner_vars

\* update_list_args, lines 66-68: the next delete
ListDelete ==
    /\ pc = "list_arg"
    /\ writer.deletes < writer.to_delete
    /\ \E ok \in BOOLEAN :
          /\ conn' = Append(conn, Call("update_list_args", "delete", un.list_args[writer.i], ok,
                                       IF ok THEN "" ELSE "QueryError"))
          /\ IF ok
             THEN /\ writer' = [writer EXCEPT !.deletes = @ + 1]
                  /\ UNCHANGED <<pc, returned>>
             ELSE /\ returned' = Err("QueryError")
                  /\ pc' = "returned"
                  /\ UNCHANGED writer
    /\ UNCHANGED write_query
    /\ UNCHANGED planner_vars

\* faulty variant: an insert is issued while deletes of the field are still to come
ListInsert_before_deletes ==
    /\ pc = "list_arg"
    /\ writer.inserts < writer.to_insert
    /\ conn' = Append(conn, Call("update_list_args", "insert", un.list_args[writer.i], TRUE, ""))
    /\ writer' = [writer EXCEPT !.inserts = @ + 1]
    /\ UNCHANGED <<pc, returned, write_query>>
    /\ UNCHANGED planner_vars

\* update_list_args, lines 70-72: the next insert, once the loop of the deletes is over
ListInsert ==
    /\ pc = "list_arg"
    /\ writer.deletes = writer.to_delete
    /\ writer.inserts < writer.to_insert
    /\ \E ok \in BOOLEAN :
          /\ conn' = Append(conn, Call("update_list_args", "insert", un.list_args[writer.i], ok,
                                       IF ok THEN "" ELSE "QueryError"))
          /\ IF ok
             THEN /\ writer' = [writer EXCEPT !.inserts = @ + 1]
                  /\ UNCHANGED <<pc, returned>>
             ELSE /\ returned' = Err("QueryError")
                  /\ pc' = "returned"
                  /\ UNCHANGED writer
    /\ UNCHANGED write_query
    /\ UNCHANGED planner_vars

\* update_list_args, line 73: the entry is done
ListArgDone ==
    /\ pc = "list_arg"
    /\ writer.deletes = writer.to_delete
    /\ writer.inserts = writer.to_insert
    /\ pc' = "list_args"
    /\ UNCHANGED <<write_query, conn, writer, returned>>
    /\ UNCHANGED planner_vars

\* update_list_args returns Ok(()), update::execute returns Ok(id) (lines 75, 23-25), and
\* update binds it to parent_id (mod.rs line 36)
UpdateReturn ==
    /\ pc = "list_args"
    /\ writer.i = Len(un.list_args)
    /\ writer' = [writer EXCEPT !.parent_id = writer.id]
    /\ pc' = "update_nested"
    /\ UNCHANGED <<write_query, conn, returned>>
    /\ UNCHANGED planner_vars

InitWriter ==
    /\ live = <<>>
    /\ live0 = <<>>
    /\ next = <<>>
    /\ foreign_keys = TRUE
    /\ pc = "execute"
    /\ current_database_schema = <<>>
    /\ expected_database_schema = <<>>
    /\ steps = <<>>
    /\ idx = 0
    /\ result = <<>>
    /\ altered_steps = <<>>
    /\ returned = NotReturned
    /\ xi = 0
    /\ catalog = NoCatalog
    /\ catalog0 = catalog
    /\ inspector = NoInspector
    /\ table_names = <<>>
    /\ write_query \in WriteQueries
    /\ conn = <<>>
    /\ writer = NoWriter

NextWriter ==
    \/ ExecuteBegin \/ UpsertFindId \/ Create \/ NestedWrites \/ OtherQuery
    \/ UpdateFindId \/ UpdateOne \/ ListArgNext \/ ListDelete \/ ListInsert \/ ListArgDone
    \/ UpdateReturn

SpecWriter == InitWriter /\ [][NextWriter]_vars

---------------------------------------------------------------------------
(* DatabaseWriter::execute: the branches of an upsert, the order of an update *)

IsUpsert == write_query.kind = "UpsertRecord"
\* The calls a branch makes: create and its callees, update and its callees.
CallsOfCreate == {k \in DOMAIN conn : conn[k].by = "create"}
CallsOfUpdate == {k \in DOMAIN conn : conn[k].by \in {"update", "update_list_args"}}
NotFound(c) == ~c.ok /\ c.gave = "RecordNotFoundForWhere"

\* C17: an upsert looks its record up once; the create branch runs exactly when the lookup
\* fails with RecordNotFoundForWhere, the update branch exactly when it succeeds, and any
\* other lookup error is returned with neither create nor update performed; one branch per
\* upsert, in the one transaction with_tx_ext opened.
C17_UpsertBranches ==
    IsUpsert =>
        /\ pc # "execute" => writer.txs = 1
        /\ conn = <<>> => writer.branch = "none"
        /\ conn # <<>> =>
              /\ conn[1] = Call("execute", "find_id", write_query.where_, conn[1].ok, conn[1].gave)
              /\ \A k \in DOMAIN conn : (conn[k].by = "execute" /\ conn[k].call = "find_id") => k = 1
              /\ writer.branch = "create" <=> NotFound(conn[1])
              /\ writer.branch = "update" <=> conn[1].ok
              /\ writer.branch = "error" <=> (~conn[1].ok /\ ~NotFound(conn[1]))
              /\ CallsOfCreate # {} => writer.branch = "create"
              /\ CallsOfUpdate # {} => writer.branch = "update"
              /\ writer.branch = "error" =>
                    (Len(conn) = 1 /\ pc = "returned" /\ returned = Err(conn[1].gave))
              /\ (pc = "returned" /\ returned.status = "Ok") =>
                    /\ returned.value[1].typ = "Create" <=> writer.branch = "create"
                    /\ returned.value[1].typ = "Update" <=> writer.branch = "update"

\* an upsert whose lookup found no record and whose create branch ran to its result
C17_Witness ==
    /\ IsUpsert
    /\ pc = "returned"
    /\ NotFound(conn[1])
    /\ CallsOfCreate # {} /\ CallsOfUpdate = {}
    /\ returned.status = "Ok" /\ returned.value[1].typ = "Create"
    /\ write_query.update.list_args # <<>>

\* The lookup update::execute made, if it has made it.
Lookups == {k \in DOMAIN conn : conn[k].by = "update" /\ conn[k].call = "find_id"}
IsWrite(c) == c.by \in {"update", "update_list_args"} /\ c.call \in {"update", "delete", "insert"}

\* C18: update::execute looks the id up before any write; a failed lookup is returned with
\* no update, delete or insert issued; after a successful one the record update (if any) is
\* issued before every list-value statement, the deletes of a list field before its
\* inserts, a failing statement is the last statement, and the id given back is the id
\* that was looked up.
C18_UpdateOrder ==
    /\ Cardinality(Lookups) <= 1
    /\ \A k \in DOMAIN conn :
          IsWrite(conn[k]) => \E f \in Lookups : f < k /\ conn[f].ok
    /\ \A f \in Lookups :
          ~conn[f].ok => (f = Len(conn) /\ pc = "returned" /\ returned = Err(conn[f].gave))
    /\ \A j, k \in DOMAIN conn :
          /\ (IsWrite(conn[j]) /\ IsWrite(conn[k]) /\ conn[k].call = "update"
                /\ conn[j].call \in {"delete", "insert"}) => k < j
          /\ (IsWrite(conn[j]) /\ IsWrite(conn[k]) /\ conn[j].on = conn[k].on
                /\ conn[j].call = "delete" /\ conn[k].call = "insert") => j < k
    /\ \A k \in CallsOfUpdate : ~conn[k].ok => k = Len(conn)
    /\ pc = "update_nested" =>
          \E f \in Lookups : conn[f].ok /\ writer.parent_id = conn[f].gave
    /\ (pc = "returned" /\ returned.status = "Ok" /\ returned.value[1].typ = "Update") =>
          \E f \in Lookups : conn[f].ok /\ returned.value[1].identifier = conn[f].gave

\* an update of a record and of two list fields, each with deletes and inserts, run to
\* its result
C18_Witness ==
    /\ write_query.kind = "UpdateRecord"
    /\ pc = "returned" /\ returned.status = "Ok"
    /\ \E k \in DOMAIN conn : IsWrite(conn[k]) /\ conn[k].call = "update"
    /\ \A n \in 1..2 :
          /\ Cardinality({k \in DOMAIN conn : conn[k].call = "delete" /\ conn[k].on = FieldOrder[n]}) = 2
          /\ Cardinality({k \in DOMAIN conn : conn[k].call = "insert" /\ conn[k].on = FieldOrder[n]}) = 2

====
